---- MODULE Spec2Model ----
(***************************************************************************)
(* Model of the checkout upsell extension                                  *)
(* (src/extensions/pos-recommender/src/Checkout.jsx, component             *)
(* CheckoutUpsell).  The component's state hooks and refs are the          *)
(* variables; every event handler, timer callback and promise              *)
(* continuation is one action, with the re-render it causes.  The effects  *)
(* of a render run later, in a step of their own, or at the start of the   *)
(* next re-render when that comes first.                                   *)
(*                                                                         *)
(* JavaScript strings are sequences of one-character strings, so that      *)
(* startsWith, slice, split, sort and join are computed, not assumed.      *)
(***************************************************************************)
EXTENDS Integers, Sequences, FiniteSets, TLC

VARIABLES
  mounted,              \* the first render's effects have run
  effectPending,        \* the last render's effects have not run yet
  canAdd,               \* !!shopify.instructions.value?.lines?.canAddCartLine
  canUpdate,            \* !!shopify.instructions.value?.lines?.canUpdateCartLine
  hostLines,            \* the host's cart (shopify.lines, owned by the host)
  lines,                \* useState: the last snapshot pushed to the component
  recommendations,      \* useState
  status,               \* useState
  bannerHeading,        \* useState
  bannerVisible,        \* useState
  skipNextAutoFetchRef, \* useRef(false).current
  addingVariantIds,     \* useState(new Set())
  debounceRef,          \* useRef(null).current: handle of the last timer set
  cleanupRegistered,    \* the last run of the debounce effect returned a cleanup
  timers,               \* pending setTimeout callbacks: [id, ids]
  requests,             \* recommendation POSTs in flight: [id, ids]
  changes,              \* applyCartLinesChange calls in flight: [id, variantId, change]
  userEvents,           \* history: number of buyer actions so far
  response,             \* the response drawn by the response-handling specification
  race,                 \* history: the requests in flight that a later request's
                        \* response has overtaken, whether the response that
                        \* arrived last belonged to such a request, and the ids
                        \* that request was issued for
  norm,                 \* the normalizer specification: a numeric id, its global
                        \* id and the numeric id read back from that
  posCart,              \* Modal useState cart: the last POS cart pushed to the modal
  loading,              \* Modal useState
  addedVariantIds,      \* Modal useState (an array)
  bannerStatus,         \* Modal useState
  fetchCall,            \* Modal: the handleButtonClick call that is at an await
  addCalls,             \* Modal: shopify.cart.addLineItem calls in flight
  bulkRuns,             \* Modal: the handleAddAllToCart calls that are at an await
  resolved              \* Modal history: the variantIds for which an addLineItem
                        \* call has resolved

\* The modal (src/unnamed/part_002, component Modal) has state hooks named
\* recommendations, bannerHeading and bannerVisible like the checkout
\* component; in the specifications of the modal these variables are the
\* modal's.
modalVars == <<posCart, loading, addedVariantIds, bannerStatus, fetchCall, addCalls,
               bulkRuns, resolved>>

checkoutVars == <<mounted, effectPending, canAdd, canUpdate, hostLines, lines, status,
                  skipNextAutoFetchRef, addingVariantIds, debounceRef,
                  cleanupRegistered, timers, requests, changes, response, race>>

vars == <<mounted, effectPending, canAdd, canUpdate, hostLines, lines, recommendations, status,
          bannerHeading, bannerVisible, skipNextAutoFetchRef, addingVariantIds,
          debounceRef, cleanupRegistered, timers, requests, changes, userEvents,
          response, race, norm, modalVars>>

\* null / undefined where a string is expected: no string, since every string
\* is a sequence of one-character strings
Null == <<"null">>

\* useRef(null): no timer handle (timer handles are positive)
NoTimer == 0

----------------------------------------------------------------------------
(* Bounds of the model *)

MaxLines == 2        \* cart lines the host accepts
MaxQty == 2          \* largest line quantity the host accepts
MaxUserEvents == 3   \* buyer actions (cart edits and button clicks) in one run
MaxBaseLen == 5      \* longest array of the response-handling specification
MaxIdLen == 2        \* longest numeric id of the normalizer specification

----------------------------------------------------------------------------
(* Strings *)

Prefix == <<"g","i","d",":","/","/","s","h","o","p","i","f","y","/",
            "P","r","o","d","u","c","t","V","a","r","i","a","n","t","/">>

\* UTF-16 code units of the characters that occur in variant ids
CharCode(c) ==
  CASE c = "," -> 44 [] c = "/" -> 47
    [] c = "0" -> 48 [] c = "1" -> 49 [] c = "2" -> 50 [] c = "3" -> 51
    [] c = "4" -> 52 [] c = "5" -> 53 [] c = "6" -> 54 [] c = "7" -> 55
    [] c = "8" -> 56 [] c = "9" -> 57 [] c = ":" -> 58
    [] OTHER -> 100

StartsWith(s, p) == Len(s) >= Len(p) /\ SubSeq(s, 1, Len(p)) = p

Slice(s, n) == SubSeq(s, n + 1, Len(s))

\* s.split("/").pop(): the text after the last "/"
RECURSIVE LastSegment(_)
LastSegment(s) ==
  IF s = <<>> THEN <<>>
  ELSE IF s[Len(s)] = "/" THEN <<>>
  ELSE Append(LastSegment(SubSeq(s, 1, Len(s) - 1)), s[Len(s)])

\* a < b in JavaScript's string order (code units, then length)
RECURSIVE StrLess(_, _)
StrLess(a, b) ==
  IF b = <<>> THEN FALSE
  ELSE IF a = <<>> THEN TRUE
  ELSE IF a[1] = b[1] THEN StrLess(Tail(a), Tail(b))
  ELSE CharCode(a[1]) < CharCode(b[1])

RECURSIVE InsertSorted(_, _)
InsertSorted(x, sorted) ==
  IF sorted = <<>> THEN <<x>>
  ELSE IF StrLess(x, sorted[1]) THEN <<x>> \o sorted
  ELSE <<sorted[1]>> \o InsertSorted(x, Tail(sorted))

\* Array.prototype.sort() with the default comparator
RECURSIVE SortStrings(_)
SortStrings(arr) ==
  IF arr = <<>> THEN <<>>
  ELSE InsertSorted(arr[Len(arr)], SortStrings(SubSeq(arr, 1, Len(arr) - 1)))

\* Array.prototype.join(",")
RECURSIVE Join(_)
Join(arr) ==
  IF arr = <<>> THEN <<>>
  ELSE IF Len(arr) = 1 THEN arr[1]
  ELSE arr[1] \o <<",">> \o Join(Tail(arr))

Range(s) == {s[i] : i \in DOMAIN s}

----------------------------------------------------------------------------
(* Helpers of the component *)

\* Variant of numericVariantIdFromGid: the slice starts one character early
numericVariantIdFromGidKeepsSlash(gid) ==
  IF gid = Null \/ gid = <<>> THEN Null
  ELSE IF StartsWith(gid, Prefix) THEN Slice(gid, Len(Prefix) - 1)
  ELSE IF LastSegment(gid) = <<>> THEN Null ELSE LastSegment(gid)

numericVariantIdFromGid(gid) ==
  IF gid = Null \/ gid = <<>> THEN Null
  ELSE IF StartsWith(gid, Prefix) THEN Slice(gid, Len(Prefix))
  ELSE IF LastSegment(gid) = <<>> THEN Null ELSE LastSegment(gid)

variantGidFromNumeric(numericId) == Prefix \o numericId

\* useMemo: insertion-ordered Set of the lines' numeric ids that are truthy
\* (if (numeric) set.add(numeric)), as an array
RECURSIVE cartVariantIds(_)
cartVariantIds(ls) ==
  IF ls = <<>> THEN <<>>
  ELSE LET before == cartVariantIds(SubSeq(ls, 1, Len(ls) - 1))
           numeric == numericVariantIdFromGid(ls[Len(ls)].merchandise.id)
       IN IF numeric # Null /\ numeric # <<>> /\ numeric \notin Range(before)
          THEN Append(before, numeric) ELSE before

\* Variant of cartSignature: the ids are joined in cart order
cartSignatureUnsorted(ls) == Join(cartVariantIds(ls))

\* useMemo: cartVariantIds.slice().sort().join(",")
cartSignature(ls) == Join(SortStrings(cartVariantIds(ls)))

\* useMemo: the Set of the lines' merchandise ids that are truthy
cartMerchandiseIdSet(ls) ==
  {ls[i].merchandise.id :
     i \in {j \in DOMAIN ls : ls[j].merchandise.id # Null /\ ls[j].merchandise.id # <<>>}}


----------------------------------------------------------------------------
(* Values the environment supplies *)

Id2 == <<"2">>
Id10 == <<"1", "0">>
Id3 == <<"3">>
Id4 == <<"4">>
Id5 == <<"5">>

\* variants the buyer puts into the cart by hand
CartIds == {Id2, Id10}

Line(lineId, numericId, qty) ==
  [id |-> lineId, merchandise |-> [id |-> variantGidFromNumeric(numericId)],
   quantity |-> qty]

\* shopify.lines.value when the extension is constructed
InitCarts ==
  {<<>>, <<Line(1, Id2, 1)>>}

Rec(numericId, title) == [variantId |-> numericId, productTitle |-> title]

\* an entry of a response array that has no variantId
NoIdEntry == Rec(Null, "Untitled")

\* a response: the fetch rejects, or answers non-2xx, or answers 2xx with a body
\* that is not JSON, or answers 2xx with JSON whose recommendations field has
\* the given shape
Response(kind, shape, items) == [kind |-> kind, shape |-> shape, items |-> items]

OkArray(items) == Response("ok", "array", items)

\* the responses of the backend in the component's state machine
Responses ==
  { Response("throw", "none", <<>>),
    Response("non2xx", "none", <<>>),
    Response("badjson", "none", <<>>),
    Response("ok", "null", <<>>),
    Response("ok", "missing", <<>>),
    Response("ok", "notarray", <<>>),
    OkArray(<<>>),
    OkArray(<<NoIdEntry>>),
    OkArray(<<Rec(Id2, "Gift Card"), NoIdEntry, Rec(Id2, "Gift Card 2"),
              Rec(Id3, "Wax")>>),
    OkArray(<<Rec(Id10, "Board"), Rec(Id2, "Gift Card"), Rec(Id2, "Gift Card"),
              Rec(Id3, "Wax"), NoIdEntry, Rec(Id4, "Boots"), Rec(Id5, "Socks"),
              Rec(Id10, "Board")>>) }

\* the entries of the response arrays of the response-handling specification
BaseEntries ==
  { NoIdEntry, Rec(Id2, "Gift Card"), Rec(Id2, "Gift Card 2"), Rec(Id3, "Wax"),
    Rec(Id4, "Boots"), Rec(Id5, "Socks"), Rec(Id10, "Board") }

SeqsUpTo(S, n) == UNION {[1..k -> S] : k \in 0..n}

BaseArrays == SeqsUpTo(BaseEntries, MaxBaseLen)

\* the responses of the response-handling specification
BaseResponses ==
  {OkArray(arr) : arr \in BaseArrays}
    \cup { Response("throw", "none", <<>>), Response("non2xx", "none", <<>>),
           Response("badjson", "none", <<>>), Response("ok", "null", <<>>),
           Response("ok", "missing", <<>>), Response("ok", "notarray", <<>>) }

----------------------------------------------------------------------------
(* fetchRecommendations: cleaning of the response *)

RecCap == 4

RECURSIVE CleanLoop(_, _, _, _)
CleanLoop(arr, i, seen, cleaned) ==
  IF i > Len(arr) THEN cleaned
  ELSE IF arr[i].variantId = Null \/ arr[i].variantId = <<>>
       THEN CleanLoop(arr, i + 1, seen, cleaned)
  ELSE IF arr[i].variantId \in seen
       THEN CleanLoop(arr, i + 1, seen, cleaned)
  ELSE IF Len(cleaned) + 1 >= RecCap THEN Append(cleaned, arr[i])
  ELSE CleanLoop(arr, i + 1, seen \cup {arr[i].variantId}, Append(cleaned, arr[i]))

\* Variant of cleanRecommendations: the loop never breaks at the cap
RECURSIVE CleanLoopNoCap(_, _, _, _)
CleanLoopNoCap(arr, i, seen, cleaned) ==
  IF i > Len(arr) THEN cleaned
  ELSE IF arr[i].variantId = Null \/ arr[i].variantId = <<>>
       THEN CleanLoopNoCap(arr, i + 1, seen, cleaned)
  ELSE IF arr[i].variantId \in seen
       THEN CleanLoopNoCap(arr, i + 1, seen, cleaned)
  ELSE CleanLoopNoCap(arr, i + 1, seen \cup {arr[i].variantId}, Append(cleaned, arr[i]))

cleanRecommendationsNoCap(arr) == CleanLoopNoCap(arr, 1, {}, <<>>)

\* Variant of cleanRecommendations: the seen-set is never consulted
cleanRecommendationsNoDedupe(arr) ==
  LET withId == SelectSeq(arr, LAMBDA e : e.variantId # Null /\ e.variantId # <<>>)
  IN IF Len(withId) <= RecCap THEN withId ELSE SubSeq(withId, 1, RecCap)

cleanRecommendations(arr) == CleanLoop(arr, 1, {}, <<>>)

\* Array.isArray(data?.recommendations) ? data.recommendations : []
responseBase(resp) == IF resp.shape = "array" THEN resp.items ELSE <<>>

----------------------------------------------------------------------------
(* Timers, requests and the host cart *)

Min(S) == CHOOSE x \in S : \A y \in S : x <= y

\* setTimeout returns a handle that no pending timer has
newTimerId(ts) == Min({n \in 1..(Cardinality(ts) + 1) : \A t \in ts : t.id # n})

\* clearTimeout(handle): the pending timer with that handle, if any, is dropped
clearTimeout(ts, handle) == {t \in ts : t.id # handle}

Max(S) == CHOOSE x \in S : \A y \in S : x >= y

\* every fetch call is a promise of its own; among the requests in flight a
\* larger id is a later call
newRequestId(rs) == Max({0} \cup {r.id : r \in rs}) + 1

NoRace == [overtaken |-> {}, stale |-> FALSE, ids |-> <<>>]

\* every applyCartLinesChange call is a promise of its own
newChangeId(cs) == Min({n \in 1..(Cardinality(cs) + 1) : \A c \in cs : c.id # n})


\* lines.find((l) => l?.merchandise?.id === merchandiseId): index of the first
\* such line, 0 when there is none
findLine(ls, merchandiseId) ==
  IF \E i \in DOMAIN ls : ls[i].merchandise.id = merchandiseId
  THEN Min({i \in DOMAIN ls : ls[i].merchandise.id = merchandiseId})
  ELSE 0

UpdateChange(lineId, qty) ==
  [type |-> "updateCartLine", id |-> lineId, merchandiseId |-> <<>>, quantity |-> qty]

AddChange(merchandiseId, qty) ==
  [type |-> "addCartLine", id |-> 0, merchandiseId |-> merchandiseId, quantity |-> qty]

\* line ids the host has handed out and that are still known somewhere
usedLineIds ==
  {hostLines[i].id : i \in DOMAIN hostLines} \cup {lines[i].id : i \in DOMAIN lines}
    \cup {c.change.id : c \in changes}

newLineId == Min({n \in 1..(Cardinality(usedLineIds) + 1) : n \notin usedLineIds})

\* the host accepts the change on its cart
hostAccepts(cart, change) ==
  IF change.type = "updateCartLine"
  THEN /\ \E i \in DOMAIN cart : cart[i].id = change.id
       /\ change.quantity <= MaxQty
  ELSE \/ /\ findLine(cart, change.merchandiseId) # 0
          /\ cart[findLine(cart, change.merchandiseId)].quantity + change.quantity <= MaxQty
       \/ /\ findLine(cart, change.merchandiseId) = 0
          /\ Len(cart) < MaxLines

\* the host's cart after an accepted change: updateCartLine sets the quantity of
\* the line; addCartLine merges into the line of the same merchandise or appends
hostApply(cart, change) ==
  IF change.type = "updateCartLine"
  THEN [i \in DOMAIN cart |->
          IF cart[i].id = change.id
          THEN [cart[i] EXCEPT !.quantity = change.quantity] ELSE cart[i]]
  ELSE IF findLine(cart, change.merchandiseId) # 0
  THEN [cart EXCEPT ![findLine(cart, change.merchandiseId)].quantity = @ + change.quantity]
  ELSE Append(cart, [id |-> newLineId, merchandise |-> [id |-> change.merchandiseId],
                     quantity |-> change.quantity])

\* carts one buyer edit away: a line removed, a quantity changed, a variant added
buyerEdits(cart) ==
  {SubSeq(cart, 1, i - 1) \o SubSeq(cart, i + 1, Len(cart)) : i \in DOMAIN cart}
    \cup {[cart EXCEPT ![p[1]].quantity = p[2]] :
            p \in {pq \in (DOMAIN cart) \X (1..MaxQty) : cart[pq[1]].quantity # pq[2]}}
    \cup {Append(cart, Line(newLineId, v, 1)) :
            v \in {w \in CartIds : Len(cart) < MaxLines
                                     /\ findLine(cart, variantGidFromNumeric(w)) = 0}}

\* carts the host can push next that hold the same variants: a quantity
\* changed, two neighbouring lines swapped, a second line of a variant that is
\* in the cart already
sameIdPushes(cart) ==
  {[cart EXCEPT ![p[1]].quantity = p[2]] :
     p \in {pq \in (DOMAIN cart) \X (1..MaxQty) : cart[pq[1]].quantity # pq[2]}}
    \cup {[cart EXCEPT ![i] = cart[i + 1], ![i + 1] = cart[i]] :
            i \in 1..(Len(cart) - 1)}
    \cup {Append(cart, [id |-> newLineId, merchandise |-> cart[i].merchandise,
                        quantity |-> 1]) :
            i \in {j \in DOMAIN cart : Len(cart) < MaxLines}}

----------------------------------------------------------------------------
(* Render *)

\* Variant of rendered: the capability guard is missing
renderedUnguarded == "upsell"

\* what the component returns: if (!canAdd && !canUpdate) only the static
\* warning banner, else the upsell box
rendered == IF ~canAdd /\ ~canUpdate THEN "static-warning" ELSE "upsell"

\* Variant of addButtons: the button is not disabled while its add is in flight
addButtonsNeverDisabled ==
  IF rendered # "upsell" \/ ~bannerVisible \/ status = "loading" THEN {}
  ELSE Range(recommendations)

\* the recommendations whose Add button is rendered and enabled
addButtons ==
  IF rendered # "upsell" \/ ~bannerVisible \/ status = "loading" THEN {}
  ELSE {rec \in Range(recommendations) : rec.variantId \notin addingVariantIds}

\* the Refresh button is rendered and enabled
refreshEnabled ==
  /\ rendered = "upsell" /\ bannerVisible
  /\ ~(status = "loading" \/ Len(cartVariantIds(lines)) = 0)

\* the Dismiss button of the banner is rendered
dismissOffered == rendered = "upsell" /\ bannerVisible

\* the "Show POSAI recommendations" button is rendered
showOffered == rendered = "upsell" /\ ~bannerVisible

----------------------------------------------------------------------------
(* Effects and handlers *)

\* The component: its state hooks and refs, the timers, requests and
\* mutations it has pending, and the host's cart.  Handlers and effects are
\* functions from a component to the component they leave behind.
state ==
  [mounted |-> mounted, effectPending |-> effectPending, hostLines |-> hostLines,
   lines |-> lines, recommendations |-> recommendations, status |-> status,
   bannerHeading |-> bannerHeading, bannerVisible |-> bannerVisible,
   skipNextAutoFetchRef |-> skipNextAutoFetchRef,
   addingVariantIds |-> addingVariantIds, debounceRef |-> debounceRef,
   cleanupRegistered |-> cleanupRegistered, timers |-> timers,
   requests |-> requests, changes |-> changes]

\* Variant of debounceEffect: the empty-cart branch goes back to status idle
debounceEffectEmptyIdle(s) ==
  LET ids == cartVariantIds(s.lines)
      afterCleanup == IF s.cleanupRegistered /\ s.debounceRef # NoTimer
                      THEN clearTimeout(s.timers, s.debounceRef) ELSE s.timers
      cleared == IF s.debounceRef # NoTimer
                 THEN clearTimeout(afterCleanup, s.debounceRef) ELSE afterCleanup
  IN IF Len(ids) = 0
     THEN [s EXCEPT !.recommendations = <<>>,
                    !.status = "idle",
                    !.bannerHeading = "Add an item to your cart to see recommendations",
                    !.bannerVisible = TRUE,
                    !.timers = afterCleanup,
                    !.cleanupRegistered = FALSE]
     ELSE IF s.skipNextAutoFetchRef
     THEN [s EXCEPT !.skipNextAutoFetchRef = FALSE,
                    !.timers = afterCleanup,
                    !.cleanupRegistered = FALSE]
     ELSE [s EXCEPT !.timers = cleared \cup {[id |-> newTimerId(cleared), ids |-> ids]},
                    !.debounceRef = newTimerId(cleared),
                    !.cleanupRegistered = TRUE]

\* The debounce effect of the render with s.lines: the cleanup of its previous
\* run, then its body.
debounceEffect(s) ==
  LET ids == cartVariantIds(s.lines)
      afterCleanup == IF s.cleanupRegistered /\ s.debounceRef # NoTimer
                      THEN clearTimeout(s.timers, s.debounceRef) ELSE s.timers
      cleared == IF s.debounceRef # NoTimer
                 THEN clearTimeout(afterCleanup, s.debounceRef) ELSE afterCleanup
  IN IF Len(ids) = 0
     THEN [s EXCEPT !.recommendations = <<>>,
                    !.status = "empty",
                    !.bannerHeading = "Add an item to your cart to see recommendations",
                    !.bannerVisible = TRUE,
                    !.timers = afterCleanup,
                    !.cleanupRegistered = FALSE]
     ELSE IF s.skipNextAutoFetchRef
     THEN [s EXCEPT !.skipNextAutoFetchRef = FALSE,
                    !.timers = afterCleanup,
                    !.cleanupRegistered = FALSE]
     ELSE [s EXCEPT !.timers = cleared \cup {[id |-> newTimerId(cleared), ids |-> ids]},
                    !.debounceRef = newTimerId(cleared),
                    !.cleanupRegistered = TRUE]

\* The effects a render has left pending run: the subscription to the host's
\* cart (first render only, deps []) and the debounce effect (deps
\* [cartSignature]).
runEffects(s) ==
  [debounceEffect(s) EXCEPT !.mounted = TRUE, !.effectPending = FALSE]

\* The re-render after a handler has taken the component from s0 to s1.  It
\* happens when a state hook holds a new value (fresh: the handler stored a new
\* array or Set, which never compares equal); effects still pending from the
\* previous render run at its start, after the handler's own writes.
update(s0, s1, fresh) ==
  IF /\ s1.effectPending
     /\ \/ fresh
        \/ s1.status # s0.status
        \/ s1.bannerHeading # s0.bannerHeading
        \/ s1.bannerVisible # s0.bannerVisible
  THEN runEffects(s1) ELSE s1

\* The subscribe callback, setLines(next ?? []), and the render it causes:
\* effects still pending from the previous render run at its start, with that
\* render's lines; the debounce effect of the new render is left pending when
\* the cart signature has changed.
setLines(s, next) ==
  [(IF s.effectPending THEN runEffects(s) ELSE s) EXCEPT
     !.lines = next,
     !.effectPending = cartSignature(next) # cartSignature(s.lines)]

\* fetchRecommendations(ids) up to its first await: the POST is issued
fetchStart(s, ids) ==
  [s EXCEPT !.status = "loading",
            !.bannerHeading = "Finding add-ons that pair well with your cart",
            !.bannerVisible = TRUE,
            !.requests = @ \cup {[id |-> newRequestId(s.requests), ids |-> ids]}]

\* the callback of the debounce timer t: fetchRecommendations(cartVariantIds),
\* with the ids of the render that set the timer
timerFired(s, t) ==
  fetchStart([s EXCEPT !.timers = @ \ {t}], t.ids)

\* Variant of fetchComplete: the catch block does not clear the list
fetchCompleteKeepsList(s, r, resp) ==
  IF resp.kind = "ok"
  THEN LET cleaned == cleanRecommendations(responseBase(resp))
       IN [s EXCEPT !.requests = @ \ {r},
                    !.recommendations = cleaned,
                    !.status = IF Len(cleaned) = 0 THEN "empty" ELSE "success",
                    !.bannerHeading = IF Len(cleaned) = 0
                                      THEN "No recommendations for this cart right now"
                                      ELSE "Recommended add-ons"]
  ELSE [s EXCEPT !.requests = @ \ {r},
                 !.status = "error",
                 !.bannerHeading = "Couldn't load recommendations",
                 !.bannerVisible = TRUE]

\* Variant of fetchComplete: the response of a request that a later request
\* has superseded is dropped
fetchCompleteLatestOnly(s, r, resp) ==
  IF r.id \in race.overtaken \/ \E q \in s.requests : q.id > r.id
  THEN [s EXCEPT !.requests = @ \ {r}]
  ELSE IF resp.kind = "ok"
  THEN LET cleaned == cleanRecommendations(responseBase(resp))
       IN [s EXCEPT !.requests = @ \ {r},
                    !.recommendations = cleaned,
                    !.status = IF Len(cleaned) = 0 THEN "empty" ELSE "success",
                    !.bannerHeading = IF Len(cleaned) = 0
                                      THEN "No recommendations for this cart right now"
                                      ELSE "Recommended add-ons"]
  ELSE [s EXCEPT !.requests = @ \ {r},
                 !.recommendations = <<>>,
                 !.status = "error",
                 !.bannerHeading = "Couldn't load recommendations",
                 !.bannerVisible = TRUE]

\* fetchRecommendations after the await: the response resp of request r arrives
fetchComplete(s, r, resp) ==
  IF resp.kind = "ok"
  THEN LET cleaned == cleanRecommendations(responseBase(resp))
       IN [s EXCEPT !.requests = @ \ {r},
                    !.recommendations = cleaned,
                    !.status = IF Len(cleaned) = 0 THEN "empty" ELSE "success",
                    !.bannerHeading = IF Len(cleaned) = 0
                                      THEN "No recommendations for this cart right now"
                                      ELSE "Recommended add-ons"]
  ELSE [s EXCEPT !.requests = @ \ {r},
                 !.recommendations = <<>>,
                 !.status = "error",
                 !.bannerHeading = "Couldn't load recommendations",
                 !.bannerVisible = TRUE]

\* Variant of addMutation: the update repeats the line's quantity
addMutationSameQuantity(ls, rec) ==
  LET merchandiseId == Prefix \o rec.variantId
      existing == findLine(ls, merchandiseId)
  IN IF existing # 0 /\ canUpdate
     THEN UpdateChange(ls[existing].id, ls[existing].quantity)
     ELSE AddChange(merchandiseId, 1)

\* the mutation handleAdd sends for rec, with the lines ls of the render the
\* click happened in
addMutation(ls, rec) ==
  LET merchandiseId == Prefix \o rec.variantId
      existing == findLine(ls, merchandiseId)
  IN IF existing # 0 /\ canUpdate
     THEN UpdateChange(ls[existing].id, ls[existing].quantity + 1)
     ELSE AddChange(merchandiseId, 1)

\* handleAdd(rec) up to its await
handleAdd(s, rec) ==
  IF rec.variantId = Null \/ rec.variantId = <<>> THEN s
  ELSE [s EXCEPT !.skipNextAutoFetchRef = TRUE,
                 !.addingVariantIds = @ \cup {rec.variantId},
                 !.changes = @ \cup {[id |-> newChangeId(s.changes),
                                      variantId |-> rec.variantId,
                                      change |-> addMutation(s.lines, rec)]}]

\* Variant of addSettled: an error result of the host is not looked at
addSettledIgnoresResult(s, c, outcome) ==
  IF outcome = "ok" \/ outcome = "error"
  THEN [s EXCEPT !.changes = @ \ {c},
                 !.addingVariantIds = @ \ {c.variantId},
                 !.hostLines = IF outcome = "ok" THEN hostApply(s.hostLines, c.change)
                               ELSE @,
                 !.status = "success",
                 !.bannerHeading = "Added to your order",
                 !.bannerVisible = TRUE]
  ELSE [s EXCEPT !.changes = @ \ {c},
                 !.addingVariantIds = @ \ {c.variantId},
                 !.status = "error",
                 !.bannerHeading = "Couldn't add item to your order",
                 !.bannerVisible = TRUE]

\* Variant of addSettled: the adding-set entry is not removed after a rejection
addSettledKeepsOnThrow(s, c, outcome) ==
  IF outcome = "ok"
  THEN [s EXCEPT !.changes = @ \ {c},
                 !.addingVariantIds = @ \ {c.variantId},
                 !.hostLines = hostApply(s.hostLines, c.change),
                 !.status = "success",
                 !.bannerHeading = "Added to your order",
                 !.bannerVisible = TRUE]
  ELSE [s EXCEPT !.changes = @ \ {c},
                 !.addingVariantIds = IF outcome = "throw" THEN @
                                      ELSE @ \ {c.variantId},
                 !.status = "error",
                 !.bannerHeading = "Couldn't add item to your order",
                 !.bannerVisible = TRUE]

\* handleAdd after the await: the host's answer to the mutation c; the outcome
\* is ok (a success result), error (an error result) or throw (a rejection)
addSettled(s, c, outcome) ==
  IF outcome = "ok"
  THEN [s EXCEPT !.changes = @ \ {c},
                 !.addingVariantIds = @ \ {c.variantId},
                 !.hostLines = hostApply(s.hostLines, c.change),
                 !.status = "success",
                 !.bannerHeading = "Added to your order",
                 !.bannerVisible = TRUE]
  ELSE [s EXCEPT !.changes = @ \ {c},
                 !.addingVariantIds = @ \ {c.variantId},
                 !.status = "error",
                 !.bannerHeading = "Couldn't add item to your order",
                 !.bannerVisible = TRUE]

----------------------------------------------------------------------------
(* Actions *)

\* no normalizer round trip is under way
NoNorm == [pc |-> "none", n |-> <<>>, gid |-> <<>>, out |-> <<>>]

\* no call of the modal is at an await
NoCall == [stage |-> "none", bannerStatus |-> "idle", ids |-> <<>>, baseRecs |-> <<>>]

\* the modal's variables in the specifications of the checkout component
ModalUnused ==
  /\ posCart = [lineItems |-> <<>>]
  /\ loading = FALSE
  /\ addedVariantIds = <<>>
  /\ bannerStatus = "idle"
  /\ fetchCall = NoCall
  /\ addCalls = {}
  /\ bulkRuns = {}
  /\ resolved = {}

\* the checkout component's variables in the specifications of the modal and of the
\* normalizer
CheckoutUnused ==
  /\ mounted = FALSE
  /\ effectPending = FALSE
  /\ canAdd = FALSE
  /\ canUpdate = FALSE
  /\ hostLines = <<>>
  /\ lines = <<>>
  /\ status = "idle"
  /\ skipNextAutoFetchRef = FALSE
  /\ addingVariantIds = {}
  /\ debounceRef = NoTimer
  /\ cleanupRegistered = FALSE
  /\ timers = {}
  /\ requests = {}
  /\ changes = {}
  /\ response = Response("throw", "none", <<>>)
  /\ race = NoRace

\* the component s is the next state
Commit(s) ==
  /\ mounted' = s.mounted
  /\ effectPending' = s.effectPending
  /\ hostLines' = s.hostLines
  /\ lines' = s.lines
  /\ recommendations' = s.recommendations
  /\ status' = s.status
  /\ bannerHeading' = s.bannerHeading
  /\ bannerVisible' = s.bannerVisible
  /\ skipNextAutoFetchRef' = s.skipNextAutoFetchRef
  /\ addingVariantIds' = s.addingVariantIds
  /\ debounceRef' = s.debounceRef
  /\ cleanupRegistered' = s.cleanupRegistered
  /\ timers' = s.timers
  /\ requests' = s.requests
  /\ changes' = s.changes

\* the first render has returned; its effects are pending
Init ==
  /\ mounted = FALSE
  /\ effectPending = TRUE
  /\ canAdd \in BOOLEAN
  /\ canUpdate \in BOOLEAN
  /\ hostLines \in InitCarts
  /\ lines = hostLines
  /\ recommendations = <<>>
  /\ status = "idle"
  /\ bannerHeading = "Recommended add-ons"
  /\ bannerVisible = TRUE
  /\ skipNextAutoFetchRef = FALSE
  /\ addingVariantIds = {}
  /\ debounceRef = NoTimer
  /\ cleanupRegistered = FALSE
  /\ timers = {}
  /\ requests = {}
  /\ changes = {}
  /\ userEvents = 0
  /\ response = Response("throw", "none", <<>>)
  /\ race = NoRace
  /\ norm = NoNorm
  /\ ModalUnused

\* the effects of the first render run after paint
Mount ==
  /\ ~mounted
  /\ Commit(runEffects(state))
  /\ UNCHANGED <<canAdd, canUpdate, userEvents, response, race, norm, modalVars>>

\* the debounce effect of a later render runs after paint
RunEffect ==
  /\ mounted
  /\ effectPending
  /\ Commit(runEffects(state))
  /\ UNCHANGED <<canAdd, canUpdate, userEvents, response, race, norm, modalVars>>

\* the buyer edits the cart in the checkout; the host pushes the new snapshot
\* to the shopify.lines.subscribe callback
BuyerEdit ==
  /\ mounted
  /\ userEvents < MaxUserEvents
  /\ userEvents' = userEvents + 1
  /\ \E cart \in buyerEdits(hostLines) :
       Commit(setLines([state EXCEPT !.hostLines = cart], cart))
  /\ UNCHANGED <<canAdd, canUpdate, response, race, norm, modalVars>>

\* the host pushes the snapshot that results from an accepted mutation to the
\* shopify.lines.subscribe callback
CartPush ==
  /\ mounted
  /\ lines # hostLines
  /\ Commit(setLines(state, hostLines))
  /\ UNCHANGED <<canAdd, canUpdate, userEvents, response, race, norm, modalVars>>

\* the debounce timer fires: fetchRecommendations(cartVariantIds)
TimerFire ==
  /\ \E t \in timers : Commit(update(state, timerFired(state, t), FALSE))
  /\ UNCHANGED <<canAdd, canUpdate, userEvents, response, race, norm, modalVars>>

\* the Refresh button
Refresh ==
  /\ refreshEnabled
  /\ userEvents < MaxUserEvents
  /\ userEvents' = userEvents + 1
  /\ Commit(update(state, fetchStart(state, cartVariantIds(lines)), FALSE))
  /\ UNCHANGED <<canAdd, canUpdate, response, race, norm, modalVars>>

\* the response resp of a request in flight arrives, in any order of the requests
FetchComplete ==
  /\ \E r \in requests, resp \in Responses :
       Commit(update(state, fetchComplete(state, r, resp), TRUE))
  /\ UNCHANGED <<canAdd, canUpdate, userEvents, response, race, norm, modalVars>>

\* an Add button
HandleAdd ==
  /\ userEvents < MaxUserEvents
  /\ userEvents' = userEvents + 1
  /\ \E rec \in addButtons :
       Commit(update(state, handleAdd(state, rec),
                     rec.variantId # Null /\ rec.variantId # <<>>))
  /\ UNCHANGED <<canAdd, canUpdate, response, race, norm, modalVars>>

\* the host answers a mutation in flight
AddSettled ==
  /\ \E c \in changes, outcome \in {"ok", "error", "throw"} :
       /\ outcome = "ok" => hostAccepts(hostLines, c.change)
       /\ Commit(update(state, addSettled(state, c, outcome), TRUE))
  /\ UNCHANGED <<canAdd, canUpdate, userEvents, response, race, norm, modalVars>>

\* the Dismiss button of the banner
Dismiss ==
  /\ dismissOffered
  /\ userEvents < MaxUserEvents
  /\ userEvents' = userEvents + 1
  /\ Commit(update(state, [state EXCEPT !.bannerVisible = FALSE], FALSE))
  /\ UNCHANGED <<canAdd, canUpdate, response, race, norm, modalVars>>

\* the "Show POSAI recommendations" button
Show ==
  /\ showOffered
  /\ userEvents < MaxUserEvents
  /\ userEvents' = userEvents + 1
  /\ Commit(update(state, [state EXCEPT !.bannerVisible = TRUE], FALSE))
  /\ UNCHANGED <<canAdd, canUpdate, response, race, norm, modalVars>>

Next ==
  \/ Mount
  \/ RunEffect
  \/ BuyerEdit
  \/ CartPush
  \/ TimerFire
  \/ Refresh
  \/ FetchComplete
  \/ HandleAdd
  \/ AddSettled
  \/ Dismiss
  \/ Show

Spec == Init /\ [][Next]_vars

----------------------------------------------------------------------------
(* The handling of a response: a request is in flight over a list of earlier  *)
(* recommendations, and its response is any of BaseResponses.                 *)

InitClean ==
  /\ mounted = TRUE
  /\ effectPending = FALSE
  /\ canAdd = TRUE
  /\ canUpdate = TRUE
  /\ hostLines = <<Line(1, Id2, 1)>>
  /\ lines = hostLines
  /\ recommendations = <<Rec(Id5, "Socks"), Rec(Id2, "Old Gift Card")>>
  /\ status = "loading"
  /\ bannerHeading = "Finding add-ons that pair well with your cart"
  /\ bannerVisible = TRUE
  /\ skipNextAutoFetchRef = FALSE
  /\ addingVariantIds = {}
  /\ debounceRef = 1
  /\ cleanupRegistered = TRUE
  /\ timers = {}
  /\ requests = {[id |-> 1, ids |-> <<Id2>>]}
  /\ changes = {}
  /\ userEvents = 1
  /\ response \in BaseResponses
  /\ race = NoRace
  /\ norm = NoNorm
  /\ ModalUnused

CleanResponse ==
  /\ \E r \in requests : Commit(update(state, fetchComplete(state, r, response), TRUE))
  /\ UNCHANGED <<canAdd, canUpdate, userEvents, response, race, norm, modalVars>>

NextClean == CleanResponse

SpecClean == InitClean /\ [][NextClean]_vars

----------------------------------------------------------------------------
(* Requests that overlap: the buyer edits the cart while a request is in      *)
(* flight, and the responses arrive in any order.  The history variable race  *)
(* records which requests in flight have been overtaken by the response of a  *)
(* later request.                                                             *)

InitRace == Init /\ canAdd /\ canUpdate

\* FetchComplete, with the history of the arrival
FetchArrive ==
  /\ \E r \in requests, resp \in Responses :
       /\ Commit(update(state, fetchComplete(state, r, resp), TRUE))
       /\ race' = [overtaken |-> (race.overtaken \ {r.id})
                                   \cup {q.id : q \in {o \in requests : o.id < r.id}},
                   stale |-> r.id \in race.overtaken,
                   ids |-> r.ids]
  /\ UNCHANGED <<canAdd, canUpdate, userEvents, response, norm, modalVars>>

NextRace ==
  \/ Mount
  \/ RunEffect
  \/ BuyerEdit
  \/ TimerFire
  \/ Refresh
  \/ FetchArrive

SpecRace == InitRace /\ [][NextRace]_vars

----------------------------------------------------------------------------
(* Pushes that keep the cart's variants: the checkout with a cart whose lines *)
(* are reordered, doubled or changed in quantity by the host.                 *)

\* the host pushes a snapshot with the same variants to the subscriber
SameIdPush ==
  /\ mounted
  /\ userEvents < MaxUserEvents
  /\ userEvents' = userEvents + 1
  /\ \E cart \in sameIdPushes(hostLines) :
       Commit(setLines([state EXCEPT !.hostLines = cart], cart))
  /\ UNCHANGED <<canAdd, canUpdate, response, race, norm, modalVars>>

NextSig ==
  \/ Mount
  \/ RunEffect
  \/ BuyerEdit
  \/ SameIdPush
  \/ CartPush
  \/ TimerFire
  \/ FetchComplete
  \/ HandleAdd
  \/ AddSettled

SpecSig == InitRace /\ [][NextSig]_vars

----------------------------------------------------------------------------
(* The normalizer: variantGidFromNumeric, then numericVariantIdFromGid, on    *)
(* any numeric string.                                                        *)

Digits == {"0", "1", "2", "3", "4", "5", "6", "7", "8", "9"}

\* the non-empty strings of at most MaxIdLen decimal digits
NumericStrings == UNION {[1..k -> Digits] : k \in 1..MaxIdLen}

InitNorm ==
  /\ CheckoutUnused
  /\ ModalUnused
  /\ recommendations = <<>>
  /\ bannerHeading = "Recommended add-ons"
  /\ bannerVisible = TRUE
  /\ userEvents = 0
  /\ norm \in {[pc |-> "numeric", n |-> n, gid |-> <<>>, out |-> <<>>] :
                 n \in NumericStrings}

\* variantGidFromNumeric(n)
ToGlobalId ==
  /\ norm.pc = "numeric"
  /\ norm' = [norm EXCEPT !.pc = "gid", !.gid = variantGidFromNumeric(norm.n)]
  /\ UNCHANGED <<checkoutVars, modalVars, recommendations, bannerHeading,
                 bannerVisible, userEvents>>

\* numericVariantIdFromGid(gid)
ToNumeric ==
  /\ norm.pc = "gid"
  /\ norm' = [norm EXCEPT !.pc = "done", !.out = numericVariantIdFromGid(norm.gid)]
  /\ UNCHANGED <<checkoutVars, modalVars, recommendations, bannerHeading,
                 bannerVisible, userEvents>>

NextNorm ==
  \/ ToGlobalId
  \/ ToNumeric

SpecNorm == InitNorm /\ [][NextNorm]_vars

----------------------------------------------------------------------------
(* The POS modal (src/unnamed/part_002, component Modal): values *)

\* a JavaScript number that is not finite (NaN); the finite numbers of the
\* model are the naturals
NaN == -1

IsDigit(c) == CharCode(c) >= 48 /\ CharCode(c) <= 57

\* Number(s) for the variant ids of the model: a missing id (undefined) is NaN,
\* the empty string 0, a string of decimal digits its value, a string with a
\* character that is no digit NaN
RECURSIVE ToNumber(_)
ToNumber(str) ==
  IF str = Null THEN NaN
  ELSE IF str = <<>> THEN 0
  ELSE IF \E i \in DOMAIN str : ~IsDigit(str[i]) THEN NaN
  ELSE 10 * ToNumber(SubSeq(str, 1, Len(str) - 1)) + (CharCode(str[Len(str)]) - 48)

DigitChar(d) ==
  CASE d = 0 -> "0" [] d = 1 -> "1" [] d = 2 -> "2" [] d = 3 -> "3" [] d = 4 -> "4"
    [] d = 5 -> "5" [] d = 6 -> "6" [] d = 7 -> "7" [] d = 8 -> "8" [] d = 9 -> "9"

\* String(n) for a natural number
RECURSIVE NumToStr(_)
NumToStr(n) ==
  IF n < 10 THEN <<DigitChar(n)>>
  ELSE Append(NumToStr(n \div 10), DigitChar(n % 10))

\* a variant id that is no number
IdX == <<"x", "7">>

\* a line item of the POS cart: variantId is a number (0 when absent), the
\* other two ids are strings (Null when absent)
LineItem(variantId, productVariantId, id, quantity) ==
  [variantId |-> variantId, productVariantId |-> productVariantId, id |-> id,
   quantity |-> quantity]

\* shopify.cart.current.value when the modal is constructed
PosCarts ==
  { [lineItems |-> <<>>],
    [lineItems |-> <<LineItem(0, Null, Null, 1)>>],
    [lineItems |-> <<LineItem(2, Null, Null, 1)>>],
    [lineItems |-> <<LineItem(0, variantGidFromNumeric(Id10), Null, 1)>>] }

\* the image of a recommendation: the property is absent, or null, or an image
NoImageProp == [url |-> "absent", altText |-> "absent"]

NullImage == [url |-> "null", altText |-> "null"]

Image(url, altText) == [url |-> url, altText |-> altText]

\* an entry of the backend's response array, as the modal reads it
BaseRec(numericId, title) ==
  [variantId |-> numericId, productTitle |-> title, image |-> NoImageProp]

\* the responses of POST /api/recommendations to the modal; the JSON body is
\* null (nulldata), or its recommendations field is missing, null, a falsy
\* value that is no array (falsy), an object whose length is 0 such as
\* {"length": 0} (length0), another object, a number or a non-empty string
\* (notarray), or an array
ModalResponses ==
  { Response("throw", "none", <<>>),
    Response("non2xx", "none", <<>>),
    Response("badjson", "none", <<>>),
    Response("ok", "nulldata", <<>>),
    Response("ok", "null", <<>>),
    Response("ok", "missing", <<>>),
    Response("ok", "falsy", <<>>),
    Response("ok", "length0", <<>>),
    Response("ok", "notarray", <<>>),
    OkArray(<<>>),
    OkArray(<<BaseRec(Id2, "Gift Card")>>),
    OkArray(<<BaseRec(Id2, "Gift Card"), BaseRec(Null, "Untitled"),
              BaseRec(Id2, "Gift Card 2"), BaseRec(IdX, "Sticker"),
              BaseRec(Id3, "Wax")>>) }

\* a node of the Admin API's answer; a null node and a node without id are
\* Node(Null, ...)
Node(id, image, featuredImage) ==
  [id |-> id, image |-> image, featuredImage |-> featuredImage]

\* the answers of the Admin API image query
ImageResponse(kind, nodes) == [kind |-> kind, nodes |-> nodes]

ImageResponses ==
  { ImageResponse("throw", <<>>),
    ImageResponse("non2xx", <<>>),
    ImageResponse("badjson", <<>>),
    ImageResponse("ok", <<>>),
    ImageResponse("ok", <<Node(variantGidFromNumeric(Id2), Image("gift.png", ""),
                               NullImage),
                          Node(Null, Image("lost.png", ""), NullImage),
                          Node(Id3, NullImage, Image("wax.png", "Wax")),
                          Node(variantGidFromNumeric(IdX), NullImage, NullImage)>>) }

----------------------------------------------------------------------------
(* The POS modal: helpers and handlers *)

getVariantIdFromLineItem(lineItem) ==
  LET str == IF lineItem.variantId # 0 THEN NumToStr(lineItem.variantId)
             ELSE IF lineItem.productVariantId # Null /\ lineItem.productVariantId # <<>>
             THEN lineItem.productVariantId
             ELSE IF lineItem.id # Null /\ lineItem.id # <<>> THEN lineItem.id
             ELSE Null
  IN IF str = Null THEN Null
     ELSE IF StartsWith(str, Prefix) THEN Slice(str, Len(Prefix)) ELSE str

\* cart.lineItems.map(getVariantIdFromLineItem).filter(Boolean)
posCartVariantIds(c) ==
  SelectSeq([i \in DOMAIN c.lineItems |-> getVariantIdFromLineItem(c.lineItems[i])],
            LAMBDA v : v # Null /\ v # <<>>)

\* the node's image: node.image || node.product?.featuredImage
imgNode(node) == IF node.image # NullImage THEN node.image ELSE node.featuredImage

\* imageByVariantId[key] || null after the loop over the nodes: the image of
\* the last node that has an id, an image and the numeric id key
RECURSIVE imageByVariantId(_, _)
imageByVariantId(nodes, key) ==
  IF nodes = <<>> THEN NullImage
  ELSE LET node == nodes[Len(nodes)]
           numericId == IF StartsWith(node.id, Prefix)
                        THEN Slice(node.id, Len(Prefix)) ELSE node.id
       IN IF node.id # Null /\ node.id # <<>> /\ imgNode(node) # NullImage
             /\ numericId = key
          THEN Image(imgNode(node).url, imgNode(node).altText)
          ELSE imageByVariantId(SubSeq(nodes, 1, Len(nodes) - 1), key)

\* baseRecs.map((rec) => ({...rec, image: imageByVariantId[rec.variantId] || null}))
withImages(baseRecs, nodes) ==
  [i \in DOMAIN baseRecs |->
     [baseRecs[i] EXCEPT !.image = imageByVariantId(nodes, baseRecs[i].variantId)]]

\* data.recommendations || []; an object whose length is 0 is kept as it is
\* and is read through its length only, as the empty list is
modalBaseRecs(resp) == IF resp.shape = "array" THEN resp.items ELSE <<>>

\* the "Show upsell" button is enabled
showUpsellEnabled == ~loading

\* the Dismiss button of the modal's banner is rendered
modalDismissOffered == bannerVisible

\* handleButtonClick up to its first await
handleButtonClick ==
  IF Len(posCart.lineItems) = 0
  THEN /\ bannerStatus' = "warning"
       /\ bannerHeading' = "Cart is empty. Add items before fetching upsells"
       /\ bannerVisible' = TRUE
       /\ UNCHANGED <<loading, fetchCall>>
  ELSE IF Len(posCartVariantIds(posCart)) = 0
  THEN /\ bannerStatus' = "warning"
       /\ bannerHeading' = "No variant IDs found in cart"
       /\ bannerVisible' = TRUE
       /\ UNCHANGED <<loading, fetchCall>>
  ELSE /\ loading' = TRUE
       /\ bannerStatus' = "loading"
       /\ bannerHeading' = "Fetching upsell recommendations"
       /\ bannerVisible' = TRUE
       /\ fetchCall' = [stage |-> "recommendations", bannerStatus |-> bannerStatus,
                        ids |-> posCartVariantIds(posCart), baseRecs |-> <<>>]

\* the catch and finally blocks of handleButtonClick; bannerStatus is the value
\* of the render in which the button was clicked
fetchFailed ==
  /\ IF fetchCall.bannerStatus # "error"
     THEN /\ bannerStatus' = "error"
          /\ bannerHeading' = "Upsell fetch failed. Contact developer"
     ELSE UNCHANGED <<bannerStatus, bannerHeading>>
  /\ loading' = FALSE
  /\ fetchCall' = NoCall

\* handleButtonClick from setRecommendations(recsWithImages) to its end
storeRecommendations(recsWithImages) ==
  /\ recommendations' = recsWithImages
  /\ bannerStatus' = IF Len(recsWithImages) = 0 THEN "empty" ELSE "success"
  /\ bannerHeading' = IF Len(recsWithImages) = 0
                      THEN "No upsell recommendations found for this cart"
                      ELSE "Upsell recommendations found"
  /\ loading' = FALSE
  /\ fetchCall' = NoCall

\* handleButtonClick after the POST: the response resp arrives and is parsed,
\* and hydrateRecommendationsWithImages runs up to its await
recommendationsArrived(resp) ==
  IF resp.kind = "non2xx"
  THEN /\ recommendations' = <<>>
       /\ bannerStatus' = "error"
       /\ bannerHeading' = "Upsell fetch failed. Contact developer"
       /\ loading' = FALSE
       /\ fetchCall' = NoCall
  ELSE IF resp.kind # "ok" \/ resp.shape = "nulldata" \/ resp.shape = "notarray"
  THEN fetchFailed /\ UNCHANGED recommendations
  ELSE IF Len(modalBaseRecs(resp)) = 0
  THEN storeRecommendations(modalBaseRecs(resp))
  ELSE /\ fetchCall' = [fetchCall EXCEPT !.stage = "images",
                                         !.baseRecs = modalBaseRecs(resp)]
       /\ UNCHANGED <<recommendations, bannerStatus, bannerHeading, loading>>

\* hydrateRecommendationsWithImages after its await, and the rest of
\* handleButtonClick: the Admin API's answer arrives
imagesArrived(img) ==
  IF img.kind = "non2xx" THEN storeRecommendations(fetchCall.baseRecs)
  ELSE IF img.kind = "ok"
  THEN storeRecommendations(withImages(fetchCall.baseRecs, img.nodes))
  ELSE fetchFailed /\ UNCHANGED recommendations

----------------------------------------------------------------------------
(* The POS modal: adding to the cart *)

\* the recommendations that are rendered as clickable entries
addTargets == IF loading THEN {} ELSE Range(recommendations)

\* the "Add all to cart" button is enabled
addAllEnabled == ~(loading \/ Len(recommendations) = 0)

\* an addLineItem call in flight: by is 0 for handleAddToCart and the id of the
\* run for handleAddAllToCart
AddCall(id, by, variantId) ==
  [id |-> id, by |-> by, variantId |-> variantId, numericId |-> ToNumber(variantId)]

newCallId(cs) == Min({n \in 1..(Cardinality(cs) + 1) : \A c \in cs : c.id # n})

\* the POS host accepts addLineItem(numericId, 1)
posAccepts(c, numericId) ==
  IF \E i \in DOMAIN c.lineItems : c.lineItems[i].variantId = numericId
  THEN \A i \in DOMAIN c.lineItems :
         c.lineItems[i].variantId = numericId => c.lineItems[i].quantity < MaxQty
  ELSE Len(c.lineItems) < MaxLines

\* the POS cart after an accepted addLineItem(numericId, 1)
posAddLineItem(c, numericId) ==
  IF \E i \in DOMAIN c.lineItems : c.lineItems[i].variantId = numericId
  THEN [lineItems |->
          [i \in DOMAIN c.lineItems |->
             IF c.lineItems[i].variantId = numericId
             THEN [c.lineItems[i] EXCEPT !.quantity = @ + 1] ELSE c.lineItems[i]]]
  ELSE [lineItems |-> Append(c.lineItems, LineItem(numericId, Null, Null, 1))]

\* the variant ids of the addLineItem calls the host has received from the
\* modal: the calls in flight and the resolved ones
hostAdds ==
  {c.numericId : c \in addCalls} \cup {ToNumber(v) : v \in resolved}

\* arr.includes(v)
Includes(arr, v) == \E i \in DOMAIN arr : arr[i] = v

\* Array.from(new Set([...prev, ...more]))
RECURSIVE AppendNew(_, _)
AppendNew(prev, more) ==
  IF more = <<>> THEN prev
  ELSE AppendNew(IF Includes(prev, more[1]) THEN prev ELSE Append(prev, more[1]),
                 Tail(more))

\* the first index of toAdd from index from on whose variantId is a finite
\* number, 0 when there is none: the for loop's continue
nextFinite(toAdd, from) ==
  IF \E i \in from..Len(toAdd) : ToNumber(toAdd[i].variantId) # NaN
  THEN Min({i \in from..Len(toAdd) : ToNumber(toAdd[i].variantId) # NaN})
  ELSE 0

\* handleAddToCart(variantIdString) up to its await
handleAddToCart(variantIdString) ==
  IF ToNumber(variantIdString) = NaN
  THEN UNCHANGED addCalls
  ELSE addCalls' = addCalls \cup {AddCall(newCallId(addCalls), 0, variantIdString)}

\* handleAddToCart after its await: the call c resolves (ok) or rejects
\* (throw); the cart is not written here but by the subscriber
addToCartSettled(c, outcome) ==
  /\ addCalls' = addCalls \ {c}
  /\ addedVariantIds' = IF outcome = "ok" /\ ~Includes(addedVariantIds, c.variantId)
                        THEN Append(addedVariantIds, c.variantId)
                        ELSE addedVariantIds

\* Variant of handleAddAllToCart: the calls for all entries are issued at once
handleAddAllToCartAtOnce ==
  LET toAdd == SelectSeq(recommendations,
                         LAMBDA rec : ~Includes(addedVariantIds, rec.variantId))
      first == nextFinite(toAdd, 1)
      run == Min({n \in 1..(Cardinality(bulkRuns) + 1) : \A b \in bulkRuns : b.id # n})
  IN IF first = 0
     THEN UNCHANGED <<bulkRuns, addCalls>>
     ELSE /\ bulkRuns' = bulkRuns \cup {[id |-> run, toAdd |-> toAdd, i |-> first,
                                         addedCount |-> 0]}
          /\ addCalls' = addCalls \cup
               {AddCall(Max({0} \cup {c.id : c \in addCalls}) + i, run,
                        toAdd[i].variantId) :
                  i \in {j \in DOMAIN toAdd : ToNumber(toAdd[j].variantId) # NaN}}

\* handleAddAllToCart up to its first await
handleAddAllToCart ==
  LET toAdd == SelectSeq(recommendations,
                         LAMBDA rec : ~Includes(addedVariantIds, rec.variantId))
      first == nextFinite(toAdd, 1)
      run == Min({n \in 1..(Cardinality(bulkRuns) + 1) : \A b \in bulkRuns : b.id # n})
  IN IF first = 0
     THEN UNCHANGED <<bulkRuns, addCalls>>
     ELSE /\ bulkRuns' = bulkRuns \cup {[id |-> run, toAdd |-> toAdd, i |-> first,
                                         addedCount |-> 0]}
          /\ addCalls' = addCalls \cup
                           {AddCall(newCallId(addCalls), run, toAdd[first].variantId)}

\* handleAddAllToCart after an await: the call c of the run b resolves (ok) or
\* rejects (throw); the loop counts and goes on to the next call or ends; the
\* cart is not written here but by the subscriber
addAllSettled(b, c, outcome) ==
  LET addedCount == IF outcome = "ok" THEN b.addedCount + 1 ELSE b.addedCount
      next == nextFinite(b.toAdd, b.i + 1)
  IN IF next # 0
     THEN /\ bulkRuns' = (bulkRuns \ {b})
                           \cup {[b EXCEPT !.i = next, !.addedCount = addedCount]}
          /\ addCalls' = (addCalls \ {c})
                           \cup {AddCall(newCallId(addCalls), b.id,
                                         b.toAdd[next].variantId)}
          /\ UNCHANGED addedVariantIds
     ELSE /\ bulkRuns' = bulkRuns \ {b}
          /\ addCalls' = addCalls \ {c}
          /\ addedVariantIds' =
               IF addedCount > 0
               THEN AppendNew(addedVariantIds,
                              [k \in DOMAIN b.toAdd |-> b.toAdd[k].variantId])
               ELSE addedVariantIds

----------------------------------------------------------------------------
(* The POS modal: actions *)

InitModal ==
  /\ CheckoutUnused
  /\ norm = NoNorm
  /\ userEvents = 0
  /\ posCart \in PosCarts
  /\ recommendations = <<>>
  /\ loading = FALSE
  /\ addedVariantIds = <<>>
  /\ bannerStatus = "idle"
  /\ bannerHeading = "Tap Show upsell to fetch recommendations"
  /\ bannerVisible = TRUE
  /\ fetchCall = NoCall
  /\ addCalls = {}
  /\ bulkRuns = {}
  /\ resolved = {}

\* the "Show upsell" button
ShowUpsell ==
  /\ showUpsellEnabled
  /\ userEvents < MaxUserEvents
  /\ userEvents' = userEvents + 1
  /\ handleButtonClick
  /\ UNCHANGED <<checkoutVars, norm, recommendations, posCart, addedVariantIds,
                 addCalls, bulkRuns, resolved>>

\* the backend's response to the modal arrives
RecommendationsArrive ==
  /\ fetchCall.stage = "recommendations"
  /\ \E resp \in ModalResponses : recommendationsArrived(resp)
  /\ UNCHANGED <<checkoutVars, norm, userEvents, bannerVisible, posCart,
                 addedVariantIds, addCalls, bulkRuns, resolved>>

\* the Admin API's answer to the image query arrives
ImagesArrive ==
  /\ fetchCall.stage = "images"
  /\ \E img \in ImageResponses : imagesArrived(img)
  /\ UNCHANGED <<checkoutVars, norm, userEvents, bannerVisible, posCart,
                 addedVariantIds, addCalls, bulkRuns, resolved>>

\* the Dismiss button of the modal's banner
ModalDismiss ==
  /\ modalDismissOffered
  /\ userEvents < MaxUserEvents
  /\ userEvents' = userEvents + 1
  /\ bannerVisible' = FALSE
  /\ UNCHANGED <<checkoutVars, norm, recommendations, bannerHeading, modalVars>>

\* the carts the host can deliver to the subscriber: the cashier has edited
\* the cart, or the host has carried out an addLineItem call of the modal
hostCarts ==
  PosCarts \cup {posAddLineItem(posCart, n) :
                   n \in {k \in hostAdds : posAccepts(posCart, k)}}

\* the cart changes in the host and the host calls the subscriber:
\* setCart(nextCart).  The promise of an addLineItem call resolves in a step of
\* its own, before or after the delivery of the cart the call has changed
PosCartPush ==
  /\ userEvents < MaxUserEvents
  /\ userEvents' = userEvents + 1
  /\ \E nextCart \in hostCarts : nextCart # posCart /\ posCart' = nextCart
  /\ UNCHANGED <<checkoutVars, norm, recommendations, bannerHeading, bannerVisible,
                 loading, addedVariantIds, bannerStatus, fetchCall, addCalls, bulkRuns, resolved>>

\* a recommendation entry is tapped
AddToCart ==
  /\ userEvents < MaxUserEvents
  /\ userEvents' = userEvents + 1
  /\ \E rec \in addTargets : handleAddToCart(rec.variantId)
  /\ UNCHANGED <<checkoutVars, norm, recommendations, bannerHeading, bannerVisible,
                 posCart, loading, addedVariantIds, bannerStatus, fetchCall, bulkRuns, resolved>>

\* the host settles the addLineItem call of a tapped entry
AddToCartSettled ==
  /\ \E c \in addCalls, outcome \in {"ok", "throw"} :
       /\ c.by = 0
       /\ addToCartSettled(c, outcome)
       /\ resolved' = IF outcome = "ok" THEN resolved \cup {c.variantId} ELSE resolved
  /\ UNCHANGED <<checkoutVars, norm, userEvents, recommendations, bannerHeading,
                 bannerVisible, posCart, loading, bannerStatus, fetchCall, bulkRuns>>

\* the "Add all to cart" button
AddAllToCart ==
  /\ addAllEnabled
  /\ userEvents < MaxUserEvents
  /\ userEvents' = userEvents + 1
  /\ handleAddAllToCart
  /\ UNCHANGED <<checkoutVars, norm, recommendations, bannerHeading, bannerVisible,
                 posCart, loading, addedVariantIds, bannerStatus, fetchCall, resolved>>

\* the host settles the addLineItem call a run of handleAddAllToCart awaits
AddAllSettled ==
  /\ \E b \in bulkRuns, c \in addCalls, outcome \in {"ok", "throw"} :
       /\ c.by = b.id
       /\ addAllSettled(b, c, outcome)
       /\ resolved' = IF outcome = "ok" THEN resolved \cup {c.variantId} ELSE resolved
  /\ UNCHANGED <<checkoutVars, norm, userEvents, recommendations, bannerHeading,
                 bannerVisible, posCart, loading, bannerStatus, fetchCall>>

NextModal ==
  \/ ShowUpsell
  \/ RecommendationsArrive
  \/ ImagesArrive
  \/ ModalDismiss
  \/ PosCartPush
  \/ AddToCart
  \/ AddToCartSettled
  \/ AddAllToCart
  \/ AddAllSettled

SpecModal == InitModal /\ [][NextModal]_vars

----------------------------------------------------------------------------
(* Properties *)

\* a push after the first effects whose cart signature differs from the last
\* one and is not empty
SignatureChanged ==
  /\ mounted
  /\ lines' # lines
  /\ cartSignature(lines') # cartSignature(lines)
  /\ Len(cartVariantIds(lines')) > 0

\* an entry of a response array carries a variantId
HasVariantId(e) == e.variantId # Null /\ e.variantId # <<>>

\* the positions of arr whose entry has a variantId not seen at an earlier position
FirstSeenIdx(arr) ==
  {i \in DOMAIN arr :
     HasVariantId(arr[i]) /\ \A j \in 1..(i - 1) : arr[j].variantId # arr[i].variantId}

\* the first four of those positions
KeptIdx(arr) ==
  {i \in FirstSeenIdx(arr) : Cardinality({j \in FirstSeenIdx(arr) : j < i}) < 4}

\* the entries at those positions, in response order
FirstSeenCapped(arr) ==
  [k \in 1..Cardinality(KeptIdx(arr)) |->
     arr[CHOOSE i \in KeptIdx(arr) : Cardinality({j \in KeptIdx(arr) : j < i}) = k - 1]]

\* the array a 2xx response is read as: its recommendations field when that is
\* an array, else the empty array
ResponseArray(resp) == IF resp.shape = "array" THEN resp.items ELSE <<>>

\* C1: Debounce.  At most one timer is pending at any time, and every change
\* of the cart cancels the timer pending before it: the timer that fires was
\* that fires while the cart is not empty was set for the variants of the cart
\* as it is then, and its POST carries them.
C1_Debounce ==
  [][ /\ Cardinality(timers') <= 1
      /\ \A t \in timers :
           (/\ requests' # requests
            /\ Len(cartVariantIds(lines)) > 0
            /\ Commit(update(state, timerFired(state, t), FALSE))) =>
             /\ Range(t.ids) = Range(cartVariantIds(lines))
             /\ \E r \in requests' :
                  r \notin requests /\ Range(r.ids) = Range(cartVariantIds(lines))
    ]_vars

\* C2: Add-then-suppress.  An Add click leaves the suppression flag set, for
\* the next cart push to find; the effect of a change of the cart signature
\* to a non-empty cart that finds the flag set schedules and issues no fetch
\* and resets it, and one that finds it reset schedules a fetch.
C2_AddThenSuppress ==
  [][ /\ (\E v \in addingVariantIds' : v \notin addingVariantIds) =>
            skipNextAutoFetchRef'
      /\ (/\ mounted /\ effectPending /\ Len(cartVariantIds(lines)) > 0
          /\ Commit(runEffects(state))) =>
            IF skipNextAutoFetchRef
            THEN timers' = {} /\ requests' = requests /\ ~skipNextAutoFetchRef'
            ELSE Cardinality(timers') = 1 /\ ~skipNextAutoFetchRef'
    ]_vars

\* C3: Cap and uniqueness.  In every reachable state the recommendation list
\* has at most 4 entries and no two entries share a variantId.
C3_CapAndUnique ==
  /\ Len(recommendations) <= 4
  /\ \A i, j \in DOMAIN recommendations :
       i # j => recommendations[i].variantId # recommendations[j].variantId

\* C3 witness: a response with more than four distinct ids was cut to four
C3_Witness == mounted /\ Len(recommendations) = 4 /\ status = "success"

\* C4: De-duplication.  The list stored for a 2xx response array is exactly the
\* first (at most four) entries that have a variantId not seen earlier in the
\* response, in response order, whatever list was stored before.
C4_Dedupe ==
  (requests = {} /\ response.kind = "ok" /\ response.shape = "array") =>
    recommendations = FirstSeenCapped(response.items)

\* C4 witness: a response with a repeated id and an entry without id was stored
C4_Witness ==
  /\ requests = {}
  /\ response.kind = "ok"
  /\ Len(recommendations) >= 2
  /\ \E i, j \in DOMAIN response.items :
       /\ i < j
       /\ HasVariantId(response.items[i])
       /\ response.items[i].variantId = response.items[j].variantId
  /\ \E k \in DOMAIN response.items : ~HasVariantId(response.items[k])

\* C5: Fetch outcome.  When a request has completed, a 2xx response with a
\* non-empty cleaned list has given status success, a 2xx response with an
\* empty cleaned list (a missing or non-array field included) status empty,
\* and a non-2xx response or a thrown error status error and an empty list.
C5_FetchOutcome ==
  requests = {} =>
    /\ (response.kind = "ok" /\ FirstSeenCapped(ResponseArray(response)) # <<>>) =>
         status = "success"
    /\ (response.kind = "ok" /\ FirstSeenCapped(ResponseArray(response)) = <<>>) =>
         (status = "empty" /\ recommendations = <<>>)
    /\ response.kind # "ok" => (status = "error" /\ recommendations = <<>>)

\* C5 witness: a non-2xx response has cleared the earlier list
C5_Witness ==
  /\ requests = {}
  /\ response.kind = "non2xx"
  /\ status = "error"
  /\ bannerHeading = "Couldn't load recommendations"
  /\ recommendations = <<>>

\* C6: Empty cart.  While the cart is empty after the first effects, Refresh
\* is disabled and no POST is issued; once the effect of the render with the
\* empty cart has run, no timer is pending, and the step in which it ran has
\* left status empty and the list cleared.
C6_EmptyCart ==
  [][ (mounted' /\ Len(cartVariantIds(lines')) = 0) =>
        /\ ~refreshEnabled'
        /\ requests' \subseteq requests
        /\ ~effectPending' => timers' = {}
        /\ (effectPending /\ ~effectPending') =>
             (status' = "empty" /\ recommendations' = <<>>)
    ]_vars

\* C7: Mutator choice.  An Add click on rec issues exactly one host mutation:
\* an updateCartLine of the snapshot's line of that merchandise with its
\* quantity + 1 when there is such a line and canUpdateCartLine holds, else an
\* addCartLine of that merchandise with quantity 1.
C7_MutatorChoice ==
  [][ \A rec \in addButtons :
        (/\ changes' # changes
         /\ Commit(update(state, handleAdd(state, rec), TRUE))) =>
          \E c \in changes' :
            /\ c \notin changes
            /\ changes' = changes \cup {c}
            /\ c.variantId = rec.variantId
            /\ IF canUpdate /\ \E i \in DOMAIN lines :
                    lines[i].merchandise.id = Prefix \o rec.variantId
               THEN \E i \in DOMAIN lines :
                      /\ lines[i].merchandise.id = Prefix \o rec.variantId
                      /\ c.change.type = "updateCartLine"
                      /\ c.change.id = lines[i].id
                      /\ c.change.quantity = lines[i].quantity + 1
               ELSE /\ c.change.type = "addCartLine"
                    /\ c.change.merchandiseId = Prefix \o rec.variantId
                    /\ c.change.quantity = 1
    ]_vars

\* C7 witness: an update of an existing line and an add of a new line are in flight
C7_Witness ==
  /\ \E c \in changes : c.change.type = "updateCartLine" /\ c.change.quantity = 2
  /\ \E c \in changes : c.change.type = "addCartLine"

\* C8: Capability guard.  Every mutation in flight is permitted by its flag:
\* addCartLine only with canAddCartLine, updateCartLine only with
\* canUpdateCartLine.
C8_CapabilityGuard ==
  \A c \in changes :
    /\ c.change.type = "addCartLine" => canAdd
    /\ c.change.type = "updateCartLine" => canUpdate

\* C9: No capability.  While both flags are false only the static warning is
\* rendered, no Add button is offered and no mutation was ever issued.
C9_NoCapability ==
  (~canAdd /\ ~canUpdate) =>
    /\ rendered = "static-warning"
    /\ addButtons = {}
    /\ changes = {}
    /\ addingVariantIds = {}
    /\ ~skipNextAutoFetchRef

\* C9 witness: recommendations were fetched but cannot be added
C9_Witness ==
  ~canAdd /\ ~canUpdate /\ recommendations # <<>> /\ status = "success"

\* C10: Add failure.  When the mutation of an add ends with an error result or
\* a throw, handleAdd sets status error, shows the banner with the add-error
\* heading and leaves the list as it is; the host cart is unchanged and no
\* mutation is issued again.  The render that follows shows these values,
\* unless it first runs the pending effect of a cart that has become empty.
C10_AddFailure ==
  [][ \A c \in changes, outcome \in {"error", "throw"} :
        (/\ changes' # changes
         /\ Commit(update(state, addSettled(state, c, outcome), TRUE))) =>
          /\ addSettled(state, c, outcome).status = "error"
          /\ addSettled(state, c, outcome).bannerVisible
          /\ addSettled(state, c, outcome).bannerHeading
               = "Couldn't add item to your order"
          /\ addSettled(state, c, outcome).recommendations = recommendations
          /\ changes' = changes \ {c}
          /\ hostLines' = hostLines
          /\ (~effectPending \/ Len(cartVariantIds(lines)) > 0) =>
               /\ status' = "error"
               /\ bannerVisible'
               /\ bannerHeading' = "Couldn't add item to your order"
               /\ recommendations' = recommendations
    ]_vars

\* C10 witness: an add has failed while recommendations are listed
C10_Witness ==
  /\ status = "error"
  /\ bannerHeading = "Couldn't add item to your order"
  /\ recommendations # <<>>
  /\ changes = {}

\* C11: In-flight marker.  No two host mutations in flight belong to the same
\* recommendation variantId, every variantId with a mutation in flight is in
\* the adding-set, and no enabled Add button belongs to a variantId of the
\* adding-set.
C11_InFlightMarker ==
  /\ \A c1, c2 \in changes : c1.variantId = c2.variantId => c1 = c2
  /\ \A c \in changes : c.variantId \in addingVariantIds
  /\ \A rec \in addButtons : rec.variantId \notin addingVariantIds

\* C11 witness: adds of two different variantIds are in flight at the same
\* time, and the buttons of both are disabled
C11_Witness ==
  /\ \E c1, c2 \in changes : c1.variantId # c2.variantId
  /\ Cardinality(addingVariantIds) = 2
  /\ bannerVisible /\ status # "loading" /\ addButtons = {}
  /\ Len(recommendations) = 2

\* C12: Stale response wins.  A cart change or a new request removes no
\* request in flight; the arrival of a response, whichever request in flight
\* it belongs to (the latest, one with a later request still in flight, or one
\* whose later request has been answered already), stores the list and the
\* status of that response.  The render that follows shows them, unless it
\* first runs the pending effect of a cart that has become empty.
C12_StaleResponseWins ==
  [][ /\ lines' # lines => requests \subseteq requests'
      /\ (\E n \in requests' : n \notin requests) => requests \subseteq requests'
      /\ \A r \in requests, resp \in Responses :
           (/\ requests' # requests
            /\ Commit(update(state, fetchComplete(state, r, resp), TRUE))) =>
             LET stored == IF resp.kind # "ok" THEN <<>>
                           ELSE FirstSeenCapped(ResponseArray(resp))
                 shown == IF resp.kind # "ok" THEN "error"
                          ELSE IF stored = <<>> THEN "empty" ELSE "success"
             IN /\ requests' = requests \ {r}
                /\ fetchComplete(state, r, resp).recommendations = stored
                /\ fetchComplete(state, r, resp).status = shown
                /\ (~effectPending \/ Len(cartVariantIds(lines)) > 0) =>
                     (recommendations' = stored /\ status' = shown)
    ]_vars

\* C12 witness: two requests were in flight, the response of the later one
\* arrived first, and the response of the earlier one (for a cart that has
\* changed since) arrived last and is the one shown
C12_Witness ==
  /\ race.stale
  /\ race.ids # cartVariantIds(lines)
  /\ requests = {}
  /\ timers = {}
  /\ status = "success"
  /\ recommendations # <<>>

\* C13: Image hydration is non-fatal.  Whenever the Admin image request of a
\* Show-upsell fetch fails (a non-2xx answer, a rejected fetch or a body that
\* is no JSON), the fetch ends with the image-less list of the backend stored
\* and with banner status success or empty.
C13_HydrationNonFatal ==
  [][ \A img \in ImageResponses :
        (fetchCall.stage = "images" /\ img.kind # "ok" /\ imagesArrived(img)) =>
          /\ recommendations' = fetchCall.baseRecs
          /\ bannerStatus' \in {"success", "empty"}
    ]_vars

\* the indices of a run's list after its current one whose variantId is a
\* finite number
LaterFinite(b) ==
  {j \in (b.i + 1)..Len(b.toAdd) : ToNumber(b.toAdd[j].variantId) # NaN}

\* C14: Bulk add is sequential.  Every run of Add all has exactly one
\* addLineItem call in flight, the one for its current entry; when that call
\* settles, resolved or rejected, the run goes on to the next entry in list
\* order that has a numeric id and issues its call in that step, and it ends
\* only when no such entry is left.
C14_BulkSequential ==
  [][ /\ \A b \in bulkRuns' :
           \E c \in addCalls' :
             /\ c.by = b.id
             /\ c.variantId = b.toAdd[b.i].variantId
             /\ \A d \in addCalls' : d.by = b.id => d = c
      /\ \A b \in bulkRuns, c \in addCalls :
           (c.by = b.id /\ c \notin addCalls') =>
             IF LaterFinite(b) # {}
             THEN \E b2 \in bulkRuns' :
                    /\ b2.id = b.id /\ b2.toAdd = b.toAdd
                    /\ b2.i \in LaterFinite(b)
                    /\ \A j \in LaterFinite(b) : b2.i <= j
             ELSE \A b2 \in bulkRuns' : b2.id # b.id
      /\ \A b \in bulkRuns, b2 \in bulkRuns' :
           (b2.id = b.id /\ b2.i # b.i) =>
             \A c \in addCalls : c.by = b.id => c \notin addCalls'
    ]_vars

\* C14 witness: a run over five entries has skipped the two entries without a
\* numeric id, one of its first two calls was rejected and the other resolved,
\* and its third call is in flight
C14_Witness ==
  \E b \in bulkRuns :
    /\ Len(b.toAdd) = 5
    /\ b.i = 5
    /\ b.addedCount = 1
    /\ \E c \in addCalls : c.by = b.id /\ c.numericId = 3

\* C15: Normalizer round trip.  For every numeric string n, reading the
\* numeric id back from the global id made of n gives n.
C15_RoundTrip ==
  norm.pc = "done" =>
    /\ norm.gid = Prefix \o norm.n
    /\ norm.out = norm.n

\* C15 witness: a two-digit id with a leading zero has made the round trip
C15_Witness ==
  /\ norm.pc = "done"
  /\ Len(norm.n) = 2
  /\ norm.n[1] = "0"
  /\ norm.out = norm.n

\* C16: Failure collapse.  Every Show-upsell fetch whose POST is answered
\* non-2xx or is rejected ends with banner status error, whatever the banner
\* status was when the button was tapped.
C16_FailureCollapse ==
  [][ \A resp \in ModalResponses :
        (/\ fetchCall.stage = "recommendations"
         /\ resp.kind \in {"non2xx", "throw"}
         /\ recommendationsArrived(resp)) =>
          bannerStatus' = "error"
    ]_vars

StatusEnum == {"idle", "loading", "success", "empty", "error"}

\* C17: Status enum.  In every reachable state the checkout component's status
\* and the modal's banner status are each one of idle, loading, success, empty
\* and error.
C17_StatusEnum ==
  /\ status \in StatusEnum
  /\ bannerStatus \in StatusEnum

\* C18: Malformed response.  A 2xx response to the modal whose recommendations
\* field is missing or is no array ends the fetch with an empty list stored
\* and banner status empty.
C18_MalformedIsEmpty ==
  [][ \A resp \in ModalResponses :
        (/\ fetchCall.stage = "recommendations"
         /\ resp.kind = "ok"
         /\ resp.shape \in {"missing", "null", "falsy", "length0", "notarray"}
         /\ recommendationsArrived(resp)) =>
          /\ recommendations' = <<>>
          /\ bannerStatus' = "empty"
    ]_vars

\* C19: List sanitising.  The modal's list never holds an entry without a
\* variantId and never holds two entries with the same variantId.
C19_ModalListSanitised ==
  /\ \A i \in DOMAIN recommendations : HasVariantId(recommendations[i])
  /\ \A i, j \in DOMAIN recommendations :
       i # j => recommendations[i].variantId # recommendations[j].variantId

\* C20: Banner re-show.  Every step that changes the status, completes a
\* recommendation request or delivers the result of an add leaves the banner
\* visible.
C20_BannerReshown ==
  [][ (\/ status' # status
       \/ (requests' # requests /\ requests' \subseteq requests)
       \/ (changes' # changes /\ changes' \subseteq changes)) =>
        bannerVisible'
    ]_vars

\* the effect of a render with an empty cart runs, after the first effects:
\* in a step of its own or at the start of a re-render
EmptyCartEffect ==
  /\ mounted
  /\ effectPending
  /\ lines' # lines \/ ~effectPending'
  /\ Len(cartVariantIds(lines)) = 0

\* C21 as stated: when the cart becomes empty, the status becomes idle.
C21_IdleOnEmptyCart ==
  [][ EmptyCartEffect => status' = "idle" ]_vars

\* C21, amended: Status idle is never entered again once it has been left;
\* when the cart becomes empty the status becomes empty.
C21_EmptyOnEmptyCart ==
  [][ /\ status # "idle" => status' # "idle"
      /\ EmptyCartEffect => status' = "empty"
    ]_vars

\* C21 witness: a fetch had been started (idle was left for loading) and the
\* buyer then emptied the cart
C21_Witness ==
  /\ mounted
  /\ lines = <<>>
  /\ status = "empty"
  /\ recommendations = <<>>
  /\ userEvents > 0
  /\ requests # {}

\* C22: Adding-set lifecycle.  The adding-set holds exactly the variantIds of
\* the host mutations in flight: the click inserts the variantId with the
\* call, every outcome of the call removes it; with no mutation in flight the
\* set is empty and no recommendation's Add button is disabled by it.
C22_AddingSetLifecycle ==
  /\ addingVariantIds = {c.variantId : c \in changes}
  /\ changes = {} =>
       /\ addingVariantIds = {}
       /\ (mounted /\ rendered = "upsell" /\ bannerVisible /\ status # "loading") =>
            addButtons = Range(recommendations)

\* C22 witness: an add has failed, nothing is in flight any more and the Add
\* buttons of the list are enabled
C22_Witness ==
  /\ status = "error"
  /\ bannerHeading = "Couldn't add item to your order"
  /\ changes = {}
  /\ addingVariantIds = {}
  /\ addButtons # {}
  /\ addButtons = Range(recommendations)

\* the quantity of the merchandise in a cart, summed over its lines
RECURSIVE quantityOf(_, _)
quantityOf(cart, merchandiseId) ==
  IF cart = <<>> THEN 0
  ELSE (IF Head(cart).merchandise.id = merchandiseId THEN Head(cart).quantity ELSE 0)
         + quantityOf(Tail(cart), merchandiseId)

\* C23: Add accounting.  Every add that the host answers with a success
\* result raises the host cart's quantity of the recommendation's variant by
\* exactly one, whatever snapshot the click was made on.
C23_AddAccounting ==
  [][ \A c \in changes :
        (/\ changes' # changes
           /\ hostAccepts(hostLines, c.change)
           /\ Commit(update(state, addSettled(state, c, "ok"), TRUE))) =>
          quantityOf(hostLines', Prefix \o c.variantId)
            = quantityOf(hostLines, Prefix \o c.variantId) + 1
    ]_vars

\* the step is a buyer's edit of the cart, pushed to the component
BuyerStep ==
  /\ userEvents' = userEvents + 1
  /\ hostLines' # hostLines
  /\ lines' = hostLines'

\* C24: Suppression scope.  When no add is in flight, no cart change of an add
\* is waiting to be pushed and no effect is pending, a buyer's edit that
\* changes the signature to a non-empty one leaves an effect pending that
\* schedules a fetch for the new cart, also after an add that failed or that
\* left the signature as it was.
C24_SuppressionScope ==
  [][ (/\ SignatureChanged
       /\ BuyerStep
       /\ changes = {}
       /\ lines = hostLines
       /\ ~effectPending) =>
        /\ effectPending'
        /\ \E t \in runEffects(state').timers :
             /\ t.id = runEffects(state').debounceRef
             /\ t.ids = cartVariantIds(lines')
    ]_vars

\* C25: Loading flag.  The status is loading exactly when at least one
\* recommendation request is in flight.
C25_LoadingIffInFlight ==
  (status = "loading") <=> (requests # {})

\* C26: Status and list agree.  Status success goes with a non-empty list,
\* status empty with an empty list.
C26_StatusListAgree ==
  /\ status = "success" => recommendations # <<>>
  /\ status = "empty" => recommendations = <<>>

\* C27: Empty cart stays clean.  While the snapshot stays empty after its push
\* has been processed, the list stays empty and the status stays empty.
C27_EmptyCartStaysClean ==
  [][ (/\ mounted
       /\ ~effectPending
       /\ Len(cartVariantIds(lines)) = 0
       /\ Len(cartVariantIds(lines')) = 0
       /\ status = "empty"
       /\ recommendations = <<>>) =>
        /\ status' = "empty"
        /\ recommendations' = <<>>
    ]_vars

\* C28: Added-set soundness.  Every variantId in addedVariantIds is one for
\* which an addLineItem call has resolved.
C28_AddedOnlyIfResolved ==
  \A i \in DOMAIN addedVariantIds : addedVariantIds[i] \in resolved

\* C29: Signature insensitivity.  A push whose cart holds the same set of
\* variant ids as the snapshot before (a quantity changed, lines reordered, a
\* second line of a variant) leaves the signature as it was and no effect
\* pending: beyond what the effect of an earlier render does when it was
\* pending still, the push changes neither the pending timer, nor the
\* suppression flag, nor the requests, the status, the list or the banner.
C29_SignatureInsensitive ==
  [][ (/\ mounted
       /\ lines' # lines
       /\ Range(cartVariantIds(lines')) = Range(cartVariantIds(lines))) =>
        LET before == IF effectPending THEN runEffects(state) ELSE state
        IN /\ cartSignature(lines') = cartSignature(lines)
           /\ ~effectPending'
           /\ timers' = before.timers
           /\ debounceRef' = before.debounceRef
           /\ cleanupRegistered' = before.cleanupRegistered
           /\ skipNextAutoFetchRef' = before.skipNextAutoFetchRef
           /\ requests' = before.requests
           /\ status' = before.status
           /\ recommendations' = before.recommendations
           /\ bannerHeading' = before.bannerHeading
           /\ bannerVisible' = before.bannerVisible
    ]_vars

\* C29 witness: the host has pushed a second line of the variant in the cart
\* while the debounced fetch of the first render was pending, and the timer
\* is pending still
C29_Witness ==
  /\ mounted
  /\ Len(lines) = 2
  /\ Len(cartVariantIds(lines)) = 1
  /\ timers # {}
  /\ debounceRef \in {t.id : t \in timers}
  /\ status = "idle"

====
